---- MODULE Spec2Model ----
(***************************************************************************)
(* Startup of the API server (src/src/app.js): the module's top level,     *)
(* the transport's listen-success callback, the promise handlers of the    *)
(* datastore connect request and the process-wide uncaughtException        *)
(* listener.  One step of the model is one statement of the source; the    *)
(* statements of a running callback are never interleaved with another     *)
(* task (run to completion), so every event-loop task is guarded by        *)
(* pc = "loop".  The request handlers (courses/read.js and                 *)
(* artists/_validates/update.validate.js) act once startup has registered  *)
(* the routers; RequestSpec starts from such a state.                      *)
(***************************************************************************)
EXTENDS Naturals, Sequences, FiniteSets, TLC

VARIABLES
    environment,          \* config.getEnv(): app, server, databases
    envName,              \* config.getEnvName(): the active profile
    unhandledRejections,  \* what the runtime does with an unhandled rejection
    pc,                   \* statement about to run, "loop" = call stack empty
    process,              \* "running" | "terminated"
    TZ,                   \* process.env.TZ
    listenerInstalled,    \* the uncaughtException listener is registered
    responseApp,          \* response.setApp(app) was called
    middlewares,          \* app.use(...) calls, in order
    secured,              \* security.makeSecure(app, hpkpKeys) was called
    server,               \* "none" | "http" | "https"
    listenState,          \* "none" | "binding" | "listening" | "error"
    routinesSetup,        \* routines._setupRoutines() was called
    corsCalls,            \* header tables handed to cors.setCors
    validatorCalls,       \* calls made on the validator, in order
    mongooseLocale,       \* tables handed to database.setMongooseLocale
    connectCalls,         \* arguments of database.connectDatabases calls
    connectState,         \* "none" | "pending" | "resolved" | "rejected"
    routerSyncs,          \* number of routers.syncRouters(app) calls
    console,              \* console.log output, in order
    stderr,               \* runtime warnings
    logs,                 \* logsManager.log calls, in order
    pendingError,         \* uncaught error being delivered, or "none"
    faults,               \* runtime faults raised so far
    courses,              \* number of documents in the Courses collection
    year,                 \* new Date().getFullYear() at the last validation
    reqKind,              \* "none" | "list" | "update": the request in hand
    reqPc,                \* where the request is: "idle", "count", "fetch",
                          \* "resolved", "rejected", "done"
    query,                \* req.query: aggregate, limit, page
    body,                 \* req.body
    totalCount,           \* paginate: the count read
    raced,                \* a write landed between paginate's two reads
    data,                 \* paginate result: data
    paginate,             \* paginate result: paginate
    sends,                \* res.api.send calls of the request, in order
    nexts                 \* next() calls of the request

lifecycle ==
    <<environment, envName, unhandledRejections, pc, TZ, listenerInstalled,
      responseApp, middlewares, secured, server, listenState, routinesSetup,
      corsCalls, validatorCalls, mongooseLocale, connectCalls, connectState,
      routerSyncs, console, stderr, faults>>

requestVars ==
    <<courses, year, reqKind, reqPc, query, body, totalCount, raced, data,
      paginate, sends, nexts>>

vars == <<lifecycle, process, logs, pendingError, requestVars>>

\* Largest number of configured database connections explored.
MaxDatabases == 2

\* Largest number of uncaught runtime faults raised after startup.
MaxFaults == 2

\* Largest number of documents in the Courses collection.
MaxRecords == 3

\* Largest req.query.limit explored.
MaxLimit == 2

\* Largest req.query.page explored.
MaxPage == 3

\* Joi.string().max(50)
NameMax == 50

\* Joi.number().min(1500)
YearMin == 1500

Profiles == {"development", "test", "production"}

\* server.cors as configured: without the x-powered-by header, with another
\* value for it, and with the value _setupCors would write.
CorsPolicies ==
    { ("origin" :> "*"),
      ("origin" :> "*") @@ ("x-powered-by" :> "Express"),
      ("origin" :> "*") @@ ("x-powered-by" :> "api") }

Environments ==
    { [ app       |-> [name |-> "api", locale |-> "en", timezone |-> "UTC"],
        server    |-> [host |-> "0.0.0.0", port |-> 3000, secure |-> s,
                       cors |-> c, ssl |-> [hpkpKeys |-> <<"k1", "k2">>]],
        databases |-> 1..n ]
      : s \in BOOLEAN, c \in CorsPolicies, n \in 0..MaxDatabases }

\* req.body of a request without payload: no key present.
EmptyBody ==
    [ name       |-> [kind |-> "absent", len |-> 0],
      genres     |-> [kind |-> "absent", items |-> <<>>],
      originYear |-> [kind |-> "absent", n |-> 0],
      unknown    |-> FALSE ]

\* No request is in hand.
NoRequest ==
    /\ year = 2026
    /\ reqKind = "none"
    /\ reqPc = "idle"
    /\ query = [aggregate |-> "all", limit |-> 1, page |-> 1]
    /\ body = EmptyBody
    /\ totalCount = 0
    /\ raced = FALSE
    /\ data = <<>>
    /\ paginate = [totalCount |-> 0, page |-> 1, limit |-> 1, pageCount |-> 0]
    /\ sends = <<>>
    /\ nexts = 0

Init ==
    /\ environment \in Environments
    /\ envName \in Profiles
    /\ unhandledRejections \in {"warn", "throw"}
    /\ pc = "TZ"
    /\ process = "running"
    /\ TZ = "unset"
    /\ listenerInstalled = FALSE
    /\ responseApp = FALSE
    /\ middlewares = <<>>
    /\ secured = FALSE
    /\ server = "none"
    /\ listenState = "none"
    /\ routinesSetup = FALSE
    /\ corsCalls = <<>>
    /\ validatorCalls = <<>>
    /\ mongooseLocale = <<>>
    /\ connectCalls = <<>>
    /\ connectState = "none"
    /\ routerSyncs = 0
    /\ console = <<>>
    /\ stderr = <<>>
    /\ logs = <<>>
    /\ pendingError = "none"
    /\ faults = 0
    /\ courses \in 0..MaxRecords
    /\ NoRequest

\* A statement runs only in a live process with no error being delivered.
Running == process = "running" /\ pendingError = "none"

\* locales.getLocaleObject(kind) of new Locales(environment.app.locale)
getLocaleObject(kind) == <<kind, environment.app.locale>>

----------------------------------------------------------------------------
(* Module top level *)

setTZ ==
    /\ Running /\ pc = "TZ"
    /\ TZ' = environment.app.timezone
    /\ pc' = "prependListener"
    /\ UNCHANGED requestVars
    /\ UNCHANGED <<environment, envName, unhandledRejections, listenerInstalled,
                   responseApp, middlewares, secured, server, listenState,
                   routinesSetup, corsCalls, validatorCalls, mongooseLocale,
                   connectCalls, connectState, routerSyncs, console, stderr,
                   faults, process, logs, pendingError>>

prependListenerSkipped ==
    /\ Running /\ pc = "prependListener"
    /\ pc' = "setApp"
    /\ UNCHANGED requestVars
    /\ UNCHANGED <<environment, envName, unhandledRejections, TZ,
                   listenerInstalled, responseApp, middlewares, secured, server,
                   listenState, routinesSetup, corsCalls, validatorCalls,
                   mongooseLocale, connectCalls, connectState, routerSyncs,
                   console, stderr, faults, process, logs, pendingError>>

prependListener ==
    /\ Running /\ pc = "prependListener"
    /\ listenerInstalled' = TRUE
    /\ pc' = "setApp"
    /\ UNCHANGED requestVars
    /\ UNCHANGED <<environment, envName, unhandledRejections, TZ, responseApp,
                   middlewares, secured, server, listenState, routinesSetup,
                   corsCalls, validatorCalls, mongooseLocale, connectCalls,
                   connectState, routerSyncs, console, stderr, faults, process,
                   logs, pendingError>>

setApp ==
    /\ Running /\ pc = "setApp"
    /\ responseApp' = TRUE
    /\ pc' = "morgan"
    /\ UNCHANGED requestVars
    /\ UNCHANGED <<environment, envName, unhandledRejections, TZ,
                   listenerInstalled, middlewares, secured, server, listenState,
                   routinesSetup, corsCalls, validatorCalls, mongooseLocale,
                   connectCalls, connectState, routerSyncs, console, stderr,
                   faults, process, logs, pendingError>>

useMorgan ==
    /\ Running /\ pc = "morgan"
    /\ middlewares' =
         IF envName # "test"
         THEN Append(middlewares,
                     IF envName = "development" THEN "morgan:dev"
                                                ELSE "morgan:combined")
         ELSE middlewares
    /\ pc' = "use"
    /\ UNCHANGED requestVars
    /\ UNCHANGED <<environment, envName, unhandledRejections, TZ,
                   listenerInstalled, responseApp, secured, server, listenState,
                   routinesSetup, corsCalls, validatorCalls, mongooseLocale,
                   connectCalls, connectState, routerSyncs, console, stderr,
                   faults, process, logs, pendingError>>

useMiddlewares ==
    /\ Running /\ pc = "use"
    /\ middlewares' = middlewares \o <<"bodyParser.json", "parseQuery", "compression">>
    /\ pc' = "makeSecure"
    /\ UNCHANGED requestVars
    /\ UNCHANGED <<environment, envName, unhandledRejections, TZ,
                   listenerInstalled, responseApp, secured, server, listenState,
                   routinesSetup, corsCalls, validatorCalls, mongooseLocale,
                   connectCalls, connectState, routerSyncs, console, stderr,
                   faults, process, logs, pendingError>>

makeSecureSkipped ==
    /\ Running /\ pc = "makeSecure"
    /\ pc' = "server"
    /\ UNCHANGED requestVars
    /\ UNCHANGED <<environment, envName, unhandledRejections, TZ,
                   listenerInstalled, responseApp, middlewares, secured, server,
                   listenState, routinesSetup, corsCalls, validatorCalls,
                   mongooseLocale, connectCalls, connectState, routerSyncs,
                   console, stderr, faults, process, logs, pendingError>>

makeSecure ==
    /\ Running /\ pc = "makeSecure"
    /\ secured' = TRUE
    /\ pc' = "server"
    /\ UNCHANGED requestVars
    /\ UNCHANGED <<environment, envName, unhandledRejections, TZ,
                   listenerInstalled, responseApp, middlewares, server,
                   listenState, routinesSetup, corsCalls, validatorCalls,
                   mongooseLocale, connectCalls, connectState, routerSyncs,
                   console, stderr, faults, process, logs, pendingError>>

selectServerPlain ==
    /\ Running /\ pc = "server"
    /\ server' = "http"
    /\ pc' = "listen"
    /\ UNCHANGED requestVars
    /\ UNCHANGED <<environment, envName, unhandledRejections, TZ,
                   listenerInstalled, responseApp, middlewares, secured,
                   listenState, routinesSetup, corsCalls, validatorCalls,
                   mongooseLocale, connectCalls, connectState, routerSyncs,
                   console, stderr, faults, process, logs, pendingError>>

selectServer ==
    /\ Running /\ pc = "server"
    /\ server' = IF environment.server.secure THEN "https" ELSE "http"
    /\ pc' = "listen"
    /\ UNCHANGED requestVars
    /\ UNCHANGED <<environment, envName, unhandledRejections, TZ,
                   listenerInstalled, responseApp, middlewares, secured,
                   listenState, routinesSetup, corsCalls, validatorCalls,
                   mongooseLocale, connectCalls, connectState, routerSyncs,
                   console, stderr, faults, process, logs, pendingError>>

\* server.listen(port, host, _listenSuccess()): the callback's body runs at
\* the call, before the bind.
listenCallsBack ==
    /\ Running /\ pc = "listen"
    /\ listenState' = "binding"
    /\ pc' = "_setupCors"
    /\ UNCHANGED requestVars
    /\ UNCHANGED <<environment, envName, unhandledRejections, TZ,
                   listenerInstalled, responseApp, middlewares, secured, server,
                   routinesSetup, corsCalls, validatorCalls, mongooseLocale,
                   connectCalls, connectState, routerSyncs, console, stderr,
                   faults, process, logs, pendingError>>

listen ==
    /\ Running /\ pc = "listen"
    /\ listenState' = "binding"
    /\ pc' = "routines"
    /\ UNCHANGED requestVars
    /\ UNCHANGED <<environment, envName, unhandledRejections, TZ,
                   listenerInstalled, responseApp, middlewares, secured, server,
                   routinesSetup, corsCalls, validatorCalls, mongooseLocale,
                   connectCalls, connectState, routerSyncs, console, stderr,
                   faults, process, logs, pendingError>>

_setupRoutines ==
    /\ Running /\ pc = "routines"
    /\ routinesSetup' = TRUE
    /\ pc' = "loop"
    /\ UNCHANGED requestVars
    /\ UNCHANGED <<environment, envName, unhandledRejections, TZ,
                   listenerInstalled, responseApp, middlewares, secured, server,
                   listenState, corsCalls, validatorCalls, mongooseLocale,
                   connectCalls, connectState, routerSyncs, console, stderr,
                   faults, process, logs, pendingError>>

Main ==
    \/ setTZ \/ prependListener \/ setApp \/ useMorgan \/ useMiddlewares
    \/ makeSecure \/ selectServer \/ listen \/ _setupRoutines

----------------------------------------------------------------------------
(* The listen-success callback and what it calls *)

\* environment.server.cors[header] = value
setHeader(cors, header, value) ==
    [h \in DOMAIN cors \cup {header} |-> IF h = header THEN value ELSE cors[h]]

\* Object.keys(environment.databases).length
AlwaysDatabases == TRUE

HasDatabases == Cardinality(environment.databases) # 0

_appLogAlways(text) == console' = Append(console, text)

\* _appLog(text): console.log unless the profile is test
_appLog(text) ==
    console' = IF envName # "test" THEN Append(console, text) ELSE console

\* _setupRouters(): routers.syncRouters(app)
_setupRouters == routerSyncs' = routerSyncs + 1

NoDatabaseNote == <<"[!]", "No database to connect.">>

StatusLine ==
    <<environment.app.name, "on at", environment.server.host,
      environment.server.port>>

SSLOn == <<"[SSL_ON]", "Secure">>

SSLOff == <<"[SSL_OFF]", "NOT SECURE (!)">>

\* The transport is bound: the 'listening' event calls _listenSuccess, which
\* calls _setupDatabase, whose first statement is _setupCors().
listening ==
    /\ Running /\ pc = "loop" /\ listenState = "binding"
    /\ listenState' = "listening"
    /\ pc' = "_setupCors"
    /\ UNCHANGED requestVars
    /\ UNCHANGED <<environment, envName, unhandledRejections, TZ,
                   listenerInstalled, responseApp, middlewares, secured, server,
                   routinesSetup, corsCalls, validatorCalls, mongooseLocale,
                   connectCalls, connectState, routerSyncs, console, stderr,
                   faults, process, logs, pendingError>>

\* The bind fails: the server's 'error' event has no listener and is thrown.
listenError ==
    /\ Running /\ pc = "loop" /\ listenState = "binding"
    /\ listenState' = "error"
    /\ pendingError' = "listen"
    /\ UNCHANGED requestVars
    /\ UNCHANGED <<environment, envName, unhandledRejections, pc, TZ,
                   listenerInstalled, responseApp, middlewares, secured, server,
                   routinesSetup, corsCalls, validatorCalls, mongooseLocale,
                   connectCalls, connectState, routerSyncs, console, stderr,
                   faults, process, logs>>

_setupCors ==
    /\ Running /\ pc = "_setupCors"
    /\ environment' =
         [environment EXCEPT
            !.server.cors = setHeader(@, "x-powered-by", environment.app.name)]
    /\ corsCalls' = Append(corsCalls, environment'.server.cors)
    /\ pc' = "_setupValidator"
    /\ UNCHANGED requestVars
    /\ UNCHANGED <<envName, unhandledRejections, TZ, listenerInstalled,
                   responseApp, middlewares, secured, server, listenState,
                   routinesSetup, validatorCalls, mongooseLocale, connectCalls,
                   connectState, routerSyncs, console, stderr, faults, process,
                   logs, pendingError>>

_setupValidatorSkipped ==
    /\ Running /\ pc = "_setupValidator"
    /\ pc' = "_setupDatabase"
    /\ UNCHANGED requestVars
    /\ UNCHANGED <<environment, envName, unhandledRejections, TZ,
                   listenerInstalled, responseApp, middlewares, secured, server,
                   listenState, routinesSetup, corsCalls, validatorCalls,
                   mongooseLocale, connectCalls, connectState, routerSyncs,
                   console, stderr, faults, process, logs, pendingError>>

_setupValidator ==
    /\ Running /\ pc = "_setupValidator"
    /\ validatorCalls' =
         validatorCalls \o
           << <<"setLocale", environment.app.locale, getLocaleObject("joi")>>,
              <<"syncSettings">> >>
    /\ pc' = "_setupDatabase"
    /\ UNCHANGED requestVars
    /\ UNCHANGED <<environment, envName, unhandledRejections, TZ,
                   listenerInstalled, responseApp, middlewares, secured, server,
                   listenState, routinesSetup, corsCalls, mongooseLocale,
                   connectCalls, connectState, routerSyncs, console, stderr,
                   faults, process, logs, pendingError>>

connectDatabasesNoWait ==
    /\ Running /\ pc = "_setupDatabase" /\ HasDatabases
    /\ mongooseLocale' = Append(mongooseLocale, getLocaleObject("mongoose"))
    /\ connectCalls' =
         Append(connectCalls, [databases |-> environment.databases,
                               verbose   |-> envName # "test"])
    /\ connectState' = "pending"
    /\ _setupRouters
    /\ pc' = "status"
    /\ UNCHANGED requestVars
    /\ UNCHANGED <<environment, envName, unhandledRejections, TZ,
                   listenerInstalled, responseApp, middlewares, secured, server,
                   listenState, routinesSetup, corsCalls, validatorCalls,
                   console, stderr, faults, process, logs, pendingError>>

\* The if-branch of _setupDatabase: the connect request is issued and its
\* promise is left pending; .then and .catch run from the event loop.
connectDatabases ==
    /\ Running /\ pc = "_setupDatabase" /\ HasDatabases
    /\ mongooseLocale' = Append(mongooseLocale, getLocaleObject("mongoose"))
    /\ connectCalls' =
         Append(connectCalls, [databases |-> environment.databases,
                               verbose   |-> envName # "test"])
    /\ connectState' = "pending"
    /\ pc' = "status"
    /\ UNCHANGED requestVars
    /\ UNCHANGED <<environment, envName, unhandledRejections, TZ,
                   listenerInstalled, responseApp, middlewares, secured, server,
                   listenState, routinesSetup, corsCalls, validatorCalls,
                   routerSyncs, console, stderr, faults, process, logs,
                   pendingError>>

\* The else-branch of _setupDatabase.
noDatabase ==
    /\ Running /\ pc = "_setupDatabase" /\ ~HasDatabases
    /\ _appLog(NoDatabaseNote)
    /\ _setupRouters
    /\ pc' = "status"
    /\ UNCHANGED requestVars
    /\ UNCHANGED <<environment, envName, unhandledRejections, TZ,
                   listenerInstalled, responseApp, middlewares, secured, server,
                   listenState, routinesSetup, corsCalls, validatorCalls,
                   mongooseLocale, connectCalls, connectState, stderr, faults,
                   process, logs, pendingError>>

_setupDatabase == _setupCors \/ _setupValidator \/ connectDatabases \/ noDatabase

statusLine ==
    /\ Running /\ pc = "status"
    /\ _appLog(StatusLine)
    /\ pc' = "secure"
    /\ UNCHANGED requestVars
    /\ UNCHANGED <<environment, envName, unhandledRejections, TZ,
                   listenerInstalled, responseApp, middlewares, secured, server,
                   listenState, routinesSetup, corsCalls, validatorCalls,
                   mongooseLocale, connectCalls, connectState, routerSyncs,
                   stderr, faults, process, logs, pendingError>>

secureLine ==
    /\ Running /\ pc = "secure"
    /\ _appLog(IF environment.server.secure THEN SSLOn ELSE SSLOff)
    /\ pc' = "loop"
    /\ UNCHANGED requestVars
    /\ UNCHANGED <<environment, envName, unhandledRejections, TZ,
                   listenerInstalled, responseApp, middlewares, secured, server,
                   listenState, routinesSetup, corsCalls, validatorCalls,
                   mongooseLocale, connectCalls, connectState, routerSyncs,
                   stderr, faults, process, logs, pendingError>>

_listenSuccess == listening \/ _setupDatabase \/ statusLine \/ secureLine

----------------------------------------------------------------------------
(* Event-loop tasks after the callback returned *)

\* .then(() => _setupRouters()) of the connect promise
connectResolved ==
    /\ Running /\ pc = "loop" /\ connectState = "pending"
    /\ connectState' = "resolved"
    /\ _setupRouters
    /\ UNCHANGED requestVars
    /\ UNCHANGED <<environment, envName, unhandledRejections, pc, TZ,
                   listenerInstalled, responseApp, middlewares, secured, server,
                   listenState, routinesSetup, corsCalls, validatorCalls,
                   mongooseLocale, connectCalls, console, stderr, faults,
                   process, logs, pendingError>>

\* The error thrown by .catch rejects the derived promise, which nothing
\* handles: the runtime either raises it as an uncaught exception or warns.
rethrow(err) ==
    IF unhandledRejections = "throw"
    THEN pendingError' = err /\ stderr' = stderr
    ELSE pendingError' = pendingError
         /\ stderr' = Append(stderr, <<"UnhandledPromiseRejectionWarning", err>>)

connectRejectedThenRouters ==
    /\ Running /\ pc = "loop" /\ connectState = "pending"
    /\ connectState' = "rejected"
    /\ _setupRouters
    /\ UNCHANGED requestVars
    /\ UNCHANGED <<environment, envName, unhandledRejections, pc, TZ,
                   listenerInstalled, responseApp, middlewares, secured, server,
                   listenState, routinesSetup, corsCalls, validatorCalls,
                   mongooseLocale, connectCalls, console, stderr, faults,
                   process, logs, pendingError>>

\* .catch(err => { throw err; }) of the connect promise
connectRejected ==
    /\ Running /\ pc = "loop" /\ connectState = "pending"
    /\ connectState' = "rejected"
    /\ rethrow("connect")
    /\ UNCHANGED requestVars
    /\ UNCHANGED <<environment, envName, unhandledRejections, pc, TZ,
                   listenerInstalled, responseApp, middlewares, secured, server,
                   listenState, routinesSetup, corsCalls, validatorCalls,
                   mongooseLocale, connectCalls, routerSyncs, console, faults,
                   process, logs>>

\* An exception thrown by some later task outside any error boundary.
runtimeFault ==
    /\ Running /\ pc = "loop" /\ faults < MaxFaults
    /\ faults' = faults + 1
    /\ pendingError' = "runtime"
    /\ UNCHANGED requestVars
    /\ UNCHANGED <<environment, envName, unhandledRejections, pc, TZ,
                   listenerInstalled, responseApp, middlewares, secured, server,
                   listenState, routinesSetup, corsCalls, validatorCalls,
                   mongooseLocale, connectCalls, connectState, routerSyncs,
                   console, stderr, process, logs>>

\* error.stack
stack(error) == <<"Error", error>>

uncaughtExceptionAlwaysLogs ==
    /\ process = "running" /\ pendingError # "none"
    /\ pendingError' = "none"
    /\ logs' = Append(logs, stack(pendingError))
    /\ process' = process
    /\ UNCHANGED requestVars
    /\ UNCHANGED lifecycle

\* The uncaughtException listener; without a listener the runtime's default
\* ends the process, as does an error thrown by the listener itself.
uncaughtException ==
    /\ process = "running" /\ pendingError # "none"
    /\ pendingError' = "none"
    /\ IF listenerInstalled /\ envName # "development"
       THEN logs' = Append(logs, stack(pendingError)) /\ process' = process
       ELSE logs' = logs /\ process' = "terminated"
    /\ UNCHANGED requestVars
    /\ UNCHANGED lifecycle

Next ==
    \/ Main
    \/ _listenSuccess
    \/ listenError
    \/ connectResolved
    \/ connectRejected
    \/ runtimeFault
    \/ uncaughtException


Spec == Init /\ [][Next]_vars

\* Once the 'listening' event has called _listenSuccess, its statements run
\* to completion: no other task can interleave with a running callback.
FairSpec == Spec /\ WF_vars(_setupDatabase \/ statusLine \/ secureLine)

----------------------------------------------------------------------------
(* Request handlers: src/src/api/courses/read.js and                       *)
(* src/src/api/artists/_validates/update.validate.js.  A request reaches   *)
(* a handler once the routers are registered and the transport is bound.   *)

startupVars ==
    <<environment, envName, unhandledRejections, pc, TZ, listenerInstalled,
      responseApp, middlewares, secured, server, listenState, routinesSetup,
      corsCalls, validatorCalls, mongooseLocale, connectCalls, connectState,
      routerSyncs, console, stderr, faults, process, logs, pendingError>>

\* The routers dispatch requests.
Dispatching ==
    /\ Running /\ pc = "loop"
    /\ listenState = "listening" /\ routerSyncs > 0

Filters == {"all", "odd", "none"}

\* The documents of the collection an aggregate filter matches, in order.
matchingDocs(filter) ==
    SelectSeq([i \in 1..courses |-> i],
              LAMBDA i : filter = "all" \/ (filter = "odd" /\ i % 2 = 1))

\* Datastore: countMatching(filter)
countMatching(filter) == Len(matchingDocs(filter))

\* Datastore: fetch(filter, skip, limit)
fetch(filter, skip, limit) ==
    LET docs == matchingDocs(filter)
        last == IF skip + limit < Len(docs) THEN skip + limit ELSE Len(docs)
    IN  IF skip >= Len(docs) THEN <<>> ELSE SubSeq(docs, skip + 1, last)

pageCountFloor(total, limit) == total \div limit

\* ceil(totalCount / limit)
pageCount(total, limit) == (total + limit - 1) \div limit

\* res.api.send(payload, code, meta)
send(payload, code, meta) ==
    sends' = Append(sends, [data |-> payload, code |-> code, meta |-> meta])

\* listCourses is called with a request: Courses.paginate(aggregate, limit,
\* page) is started and its promise is pending.
listCourses ==
    /\ Dispatching /\ reqPc = "idle"
    /\ \E f \in Filters, l \in 1..MaxLimit, p \in 1..MaxPage :
         query' = [aggregate |-> f, limit |-> l, page |-> p]
    /\ reqKind' = "list"
    /\ reqPc' = "count"
    /\ body' = EmptyBody
    /\ totalCount' = 0 /\ raced' = FALSE /\ data' = <<>>
    /\ paginate' = [totalCount |-> 0, page |-> 1, limit |-> 1, pageCount |-> 0]
    /\ sends' = <<>> /\ nexts' = 0
    /\ UNCHANGED <<courses, year>>
    /\ UNCHANGED startupVars

paginateArgsSwapped ==
    [filter |-> query.aggregate, limit |-> query.page, page |-> query.limit]

\* Courses.paginate(req.query.aggregate, req.query.limit, req.query.page)
paginateArgs ==
    [filter |-> query.aggregate, limit |-> query.limit, page |-> query.page]

\* paginate: totalCount = countMatching(filter)
paginateCount ==
    /\ Dispatching /\ reqPc = "count"
    /\ totalCount' = countMatching(paginateArgs.filter)
    /\ reqPc' = "fetch"
    /\ UNCHANGED <<courses, year, reqKind, query, body, raced, data, paginate,
                   sends, nexts>>
    /\ UNCHANGED startupVars

\* paginate: items = fetch(filter, (page - 1) * limit, limit); the promise
\* resolves with the items and the page metadata.
paginateFetch ==
    /\ Dispatching /\ reqPc = "fetch"
    /\ data' = fetch(paginateArgs.filter,
                     (paginateArgs.page - 1) * paginateArgs.limit,
                     paginateArgs.limit)
    /\ paginate' = [totalCount |-> totalCount,
                    page       |-> paginateArgs.page,
                    limit      |-> paginateArgs.limit,
                    pageCount  |-> pageCount(totalCount, paginateArgs.limit)]
    /\ reqPc' = "resolved"
    /\ UNCHANGED <<courses, year, reqKind, query, body, totalCount, raced,
                   sends, nexts>>
    /\ UNCHANGED startupVars

\* paginate: a datastore read fails; the promise rejects with a QueryError.
paginateFails ==
    /\ Dispatching /\ reqPc \in {"count", "fetch"}
    /\ reqPc' = "rejected"
    /\ UNCHANGED <<courses, year, reqKind, query, body, totalCount, raced,
                   data, paginate, sends, nexts>>
    /\ UNCHANGED startupVars

\* Another client inserts or removes a document.
courseWrite ==
    /\ Dispatching
    /\ \/ courses < MaxRecords /\ courses' = courses + 1
       \/ courses > 0 /\ courses' = courses - 1
    /\ raced' = (raced \/ reqPc = "fetch")
    /\ UNCHANGED <<year, reqKind, reqPc, query, body, totalCount, data,
                   paginate, sends, nexts>>
    /\ UNCHANGED startupVars

listCoursesThenEmptyIsError ==
    /\ Dispatching /\ reqPc = "resolved"
    /\ IF data = <<>>
       THEN send(stack("empty"), "INTERNAL_SERVER_ERROR", <<>>)
       ELSE send(data, "OK", <<[paginate |-> paginate]>>)
    /\ reqPc' = "done"
    /\ UNCHANGED <<courses, year, reqKind, query, body, totalCount, raced,
                   data, paginate, nexts>>
    /\ UNCHANGED startupVars

\* .then(result => res.api.send(result.data, OK, {paginate: result.paginate}))
listCoursesThen ==
    /\ Dispatching /\ reqPc = "resolved"
    /\ send(data, "OK", <<[paginate |-> paginate]>>)
    /\ reqPc' = "done"
    /\ UNCHANGED <<courses, year, reqKind, query, body, totalCount, raced,
                   data, paginate, nexts>>
    /\ UNCHANGED startupVars

listCoursesCatchSilent ==
    /\ Dispatching /\ reqPc = "rejected"
    /\ reqPc' = "done"
    /\ UNCHANGED <<courses, year, reqKind, query, body, totalCount, raced,
                   data, paginate, sends, nexts>>
    /\ UNCHANGED startupVars

\* .catch(err => res.api.send(err.stack, INTERNAL_SERVER_ERROR))
listCoursesCatch ==
    /\ Dispatching /\ reqPc = "rejected"
    /\ send(stack("query"), "INTERNAL_SERVER_ERROR", <<>>)
    /\ reqPc' = "done"
    /\ UNCHANGED <<courses, year, reqKind, query, body, totalCount, raced,
                   data, paginate, nexts>>
    /\ UNCHANGED startupVars

\* Payloads of a write request: each key absent, well-formed, at and past
\* its limits, or of the wrong type; with or without a key the schema
\* does not declare.
Years == {2026, 2027}

Bodies ==
    { [ name |-> nm, genres |-> g, originYear |-> oy, unknown |-> u ] :
        nm \in {[kind |-> "absent", len |-> 0], [kind |-> "number", len |-> 0]}
               \cup {[kind |-> "string", len |-> l] :
                       l \in {0, 1, NameMax, NameMax + 1}},
        g \in {[kind |-> "absent", items |-> <<>>],
               [kind |-> "string", items |-> <<>>]}
              \cup {[kind |-> "array", items |-> it] :
                      it \in {<<>>, <<"string">>, <<"string", "number">>}},
        oy \in {[kind |-> "absent", n |-> 0], [kind |-> "string", n |-> 0]}
               \cup {[kind |-> "number", n |-> v] :
                       v \in {YearMin - 1, YearMin, 2026, 2027, 2028}},
        u \in BOOLEAN }

\* name: Joi.string().max(50)
nameError(v) ==
    v.kind # "absent" /\ ~(v.kind = "string" /\ v.len >= 1 /\ v.len <= NameMax)

\* genres: Joi.array().items(Joi.string()).min(1)
genresError(v) ==
    /\ v.kind # "absent"
    /\ ~(/\ v.kind = "array"
         /\ Len(v.items) >= 1
         /\ \A i \in DOMAIN v.items : v.items[i] = "string")

\* originYear: Joi.number().min(1500).max(new Date().getFullYear())
originYearError(v, now) ==
    v.kind # "absent" /\ ~(v.kind = "number" /\ v.n >= YearMin /\ v.n <= now)

\* Joi.object({...}).validate(req.body, callback): err.details, or <<>> when
\* err is null.  Validation stops at the first failing key; a key the schema
\* does not declare is an error.
validate(b, now) ==
    LET all == (IF nameError(b.name) THEN <<"name">> ELSE <<>>)
               \o (IF genresError(b.genres) THEN <<"genres">> ELSE <<>>)
               \o (IF originYearError(b.originYear, now)
                   THEN <<"originYear">> ELSE <<>>)
               \o (IF b.unknown THEN <<"unknown">> ELSE <<>>)
    IN  IF all = <<>> THEN <<>> ELSE <<Head(all)>>

updateValidateNoReturn ==
    /\ Dispatching /\ reqPc = "idle"
    /\ \E b \in Bodies, now \in Years :
         /\ body' = b
         /\ year' = now
         /\ IF validate(b, now) # <<>>
            THEN sends' = <<[data |-> validate(b, now),
                             code |-> "UNPROCESSABLE_ENTITY", meta |-> <<>>]>>
            ELSE sends' = <<>>
         /\ nexts' = 1
    /\ reqKind' = "update"
    /\ reqPc' = "done"
    /\ query' = [aggregate |-> "all", limit |-> 1, page |-> 1]
    /\ totalCount' = 0 /\ raced' = FALSE /\ data' = <<>>
    /\ paginate' = [totalCount |-> 0, page |-> 1, limit |-> 1, pageCount |-> 0]
    /\ UNCHANGED courses
    /\ UNCHANGED startupVars

\* The update validation middleware: the schema is validated and the
\* callback either sends the details with UNPROCESSABLE_ENTITY or calls next.
updateValidate ==
    /\ Dispatching /\ reqPc = "idle"
    /\ \E b \in Bodies, now \in Years :
         /\ body' = b
         /\ year' = now
         /\ IF validate(b, now) # <<>>
            THEN /\ sends' = <<[data |-> validate(b, now),
                                code |-> "UNPROCESSABLE_ENTITY", meta |-> <<>>]>>
                 /\ nexts' = 0
            ELSE /\ sends' = <<>>
                 /\ nexts' = 1
    /\ reqKind' = "update"
    /\ reqPc' = "done"
    /\ query' = [aggregate |-> "all", limit |-> 1, page |-> 1]
    /\ totalCount' = 0 /\ raced' = FALSE /\ data' = <<>>
    /\ paginate' = [totalCount |-> 0, page |-> 1, limit |-> 1, pageCount |-> 0]
    /\ UNCHANGED courses
    /\ UNCHANGED startupVars

\* The response is flushed and the request's objects are dropped; the next
\* request starts from fresh ones.
requestEnds ==
    /\ Dispatching /\ reqPc = "done"
    /\ reqKind' = "none"
    /\ reqPc' = "idle"
    /\ query' = [aggregate |-> "all", limit |-> 1, page |-> 1]
    /\ body' = EmptyBody
    /\ totalCount' = 0 /\ raced' = FALSE /\ data' = <<>>
    /\ paginate' = [totalCount |-> 0, page |-> 1, limit |-> 1, pageCount |-> 0]
    /\ sends' = <<>> /\ nexts' = 0
    /\ UNCHANGED <<courses, year>>
    /\ UNCHANGED startupVars

\* A state startup reaches: production profile, one database connected, the
\* plain transport bound, the routers registered.
Started ==
    /\ environment =
         [ app       |-> [name |-> "api", locale |-> "en", timezone |-> "UTC"],
           server    |-> [host |-> "0.0.0.0", port |-> 3000, secure |-> FALSE,
                          cors |-> ("origin" :> "*") @@ ("x-powered-by" :> "api"),
                          ssl |-> [hpkpKeys |-> <<"k1", "k2">>]],
           databases |-> 1..1 ]
    /\ envName = "production"
    /\ unhandledRejections = "throw"
    /\ pc = "loop"
    /\ process = "running"
    /\ TZ = "UTC"
    /\ listenerInstalled = TRUE
    /\ responseApp = TRUE
    /\ middlewares =
         <<"morgan:combined", "bodyParser.json", "parseQuery", "compression">>
    /\ secured = TRUE
    /\ server = "http"
    /\ listenState = "listening"
    /\ routinesSetup = TRUE
    /\ corsCalls = <<("origin" :> "*") @@ ("x-powered-by" :> "api")>>
    /\ validatorCalls =
         << <<"setLocale", "en", <<"joi", "en">> >>, <<"syncSettings">> >>
    /\ mongooseLocale = << <<"mongoose", "en">> >>
    /\ connectCalls = <<[databases |-> 1..1, verbose |-> TRUE]>>
    /\ connectState = "resolved"
    /\ routerSyncs = 1
    /\ console = << <<"api", "on at", "0.0.0.0", 3000>>,
                    <<"[SSL_OFF]", "NOT SECURE (!)">> >>
    /\ stderr = <<>>
    /\ logs = <<>>
    /\ pendingError = "none"
    /\ faults = 0

RequestInit ==
    /\ Started
    /\ courses \in 0..MaxRecords
    /\ NoRequest

RequestNext ==
    \/ listCourses
    \/ paginateCount
    \/ paginateFetch
    \/ paginateFails
    \/ courseWrite
    \/ listCoursesThen
    \/ listCoursesCatch
    \/ updateValidate
    \/ requestEnds

\* A settled promise runs its handler: .then and .catch are microtasks.
RequestSpec ==
    RequestInit /\ [][RequestNext]_vars
                /\ WF_vars(listCoursesThen) /\ WF_vars(listCoursesCatch)

----------------------------------------------------------------------------
(* Properties *)

\* The transport accepts connections.
Serving == listenState = "listening"

RoutesRegistered == routerSyncs > 0

\* The configuration lists zero database connections.
NoDatabases == environment.databases = {}

\* _listenSuccess has returned.
ListenSuccessReturned == listenState = "listening" /\ pc = "loop"

\* C1: the transport accepts connections only once the resource routers
\* are registered.
ServingOnlyAfterRoutes == Serving => RoutesRegistered

\* C2: after a failed datastore connect the transport is not accepting
\* connections.
ConnectFailurePreventsServing == connectState = "rejected" => ~Serving

\* C3: once a datastore connect failure has been re-thrown to the
\* process-wide listener and dealt with there, the process has terminated,
\* whatever the profile.
ConnectFailureFatal ==
    (/\ connectState = "rejected"
     /\ unhandledRejections = "throw"
     /\ pendingError = "none") => process = "terminated"

\* C4: with at least one database configured, the routers are registered
\* only when the connect promise has resolved.
RoutesOnlyAfterConnect ==
    (~NoDatabases /\ RoutesRegistered) => connectState = "resolved"

RoutesAfterConnectReached ==
    ~NoDatabases /\ routerSyncs = 1 /\ connectState = "resolved"

\* C5: after a failed datastore connect no router is registered, however
\* long the process keeps running.
NoRoutesAfterConnectFailure == connectState = "rejected" => ~RoutesRegistered

ConnectFailureSurvived ==
    /\ connectState = "rejected" /\ routerSyncs = 0
    /\ process = "running" /\ pendingError = "none" /\ logs # <<>>

\* C6: with no database configured the connect primitive is never invoked,
\* and a bound transport leads to _listenSuccess returning with the routers
\* registered once and the 'no database' note printed unless the profile
\* is test.
NoDatabaseDone ==
    /\ ListenSuccessReturned
    /\ routerSyncs = 1
    /\ (\E i \in DOMAIN console : console[i] = NoDatabaseNote) <=> envName # "test"

NoDatabaseStartup ==
    /\ [](NoDatabases =>
            /\ connectCalls = <<>> /\ connectState = "none"
            /\ mongooseLocale = <<>>
            /\ (ListenSuccessReturned => NoDatabaseDone))
    /\ ((NoDatabases /\ Serving) ~> NoDatabaseDone)

NoDatabaseServing == NoDatabases /\ NoDatabaseDone /\ envName = "production"

\* C7: when a router is registered the validator has been given the active
\* locale's joi catalog and its settings have been synced after that.
ValidatorBound ==
    \E i, j \in DOMAIN validatorCalls :
        /\ i < j
        /\ validatorCalls[i] =
             <<"setLocale", environment.app.locale, getLocaleObject("joi")>>
        /\ validatorCalls[j][1] = "syncSettings"

ValidatorBoundBeforeRoutes == RoutesRegistered => ValidatorBound

RoutesWithValidator == RoutesRegistered /\ ValidatorBound

\* C8: the listener ends the process under the development profile and
\* otherwise hands the error's stack to the logger, leaves the process
\* running and changes nothing else.
Delivered == pendingError # "none" /\ pendingError' = "none" /\ listenerInstalled

FaultPolicy ==
    [][Delivered =>
         IF envName = "development"
         THEN process' = "terminated" /\ logs' = logs
         ELSE /\ process' = "running"
              /\ logs' = Append(logs, stack(pendingError))
              /\ UNCHANGED lifecycle]_vars

FaultLogged ==
    /\ envName # "development" /\ process = "running"
    /\ \E i \in DOMAIN logs : logs[i] = stack("runtime")

\* C9: the uncaughtException listener is registered before security
\* hardening, CORS and validator configuration, the datastore connect, route
\* registration and the transport bind.
StageStarted ==
    \/ secured
    \/ server # "none"
    \/ listenState # "none"
    \/ corsCalls # <<>>
    \/ validatorCalls # <<>>
    \/ connectCalls # <<>>
    \/ RoutesRegistered

ListenerBeforeStages == StageStarted => listenerInstalled

AllStagesRun ==
    /\ listenerInstalled /\ secured /\ Serving /\ corsCalls # <<>>
    /\ validatorCalls # <<>> /\ connectCalls # <<>> /\ RoutesRegistered

\* C10: no step changes the environment snapshot.
EnvironmentReadOnly == [][environment' = environment]_vars

\* C11: the routers are registered at most once, and exactly once when
\* startup has succeeded; no stage of the startup runs a second time.
StartupSucceeded ==
    ListenSuccessReturned /\ (NoDatabases \/ connectState = "resolved")

RoutesRegisteredOnce ==
    /\ routerSyncs <= 1
    /\ Len(corsCalls) <= 1
    /\ Len(validatorCalls) <= 2
    /\ Len(connectCalls) <= 1
    /\ (StartupSucceeded => routerSyncs = 1)

StartupSucceededReached ==
    StartupSucceeded /\ ~NoDatabases /\ routerSyncs = 1 /\ Len(corsCalls) = 1

\* C12: under the test profile nothing is printed and the connect request
\* is not verbose; under any other profile the connect request is verbose
\* and _listenSuccess has printed the status line and the SSL line when it
\* returns.
Printed(text) == \E i \in DOMAIN console : console[i] = text

TestProfileSilent ==
    /\ (envName = "test") =>
          /\ console = <<>>
          /\ \A i \in DOMAIN connectCalls : ~connectCalls[i].verbose
          /\ \A i \in DOMAIN middlewares :
                middlewares[i] \notin {"morgan:dev", "morgan:combined"}
    /\ (envName # "test") =>
          /\ \A i \in DOMAIN connectCalls : connectCalls[i].verbose
          /\ ListenSuccessReturned =>
                Printed(StatusLine) /\ (Printed(SSLOn) \/ Printed(SSLOff))

TestProfileStarted ==
    envName = "test" /\ ListenSuccessReturned /\ connectCalls # <<>>

\* C17: the server bound is the HTTPS one exactly when server.secure is
\* set, and outside the test profile the SSL line printed says so.
TransportMatchesSecure ==
    /\ (server # "none") => (server = "https" <=> environment.server.secure)
    /\ (envName # "test" /\ ListenSuccessReturned) =>
          /\ Printed(SSLOn) <=> server = "https"
          /\ Printed(SSLOff) <=> server = "http"

SecureServing ==
    server = "https" /\ ListenSuccessReturned /\ Printed(SSLOn)

\* C18: security.makeSecure has been applied before the server is
\* selected or bound and before CORS and validator configuration, the
\* datastore connect and route registration.
LaterStageStarted ==
    \/ server # "none"
    \/ listenState # "none"
    \/ corsCalls # <<>>
    \/ validatorCalls # <<>>
    \/ connectCalls # <<>>
    \/ RoutesRegistered

SecuredFirst == LaterStageStarted => secured

SecuredThenBound == secured /\ server # "none" /\ Serving /\ RoutesRegistered

\* C19: the status line is printed only once the routers are registered.
StatusOnlyAfterRoutes == Printed(StatusLine) => RoutesRegistered

\* C20: CORS and validator configuration, the datastore connect and route
\* registration have run only if the transport bind has succeeded.
CallbackStageRun ==
    \/ corsCalls # <<>>
    \/ validatorCalls # <<>>
    \/ mongooseLocale # <<>>
    \/ connectCalls # <<>>
    \/ RoutesRegistered

StagesOnlyAfterBind == CallbackStageRun => listenState = "listening"

StagesRunAfterBind ==
    corsCalls # <<>> /\ pc = "_setupValidator" /\ listenState = "listening"

BindFailedNothingRun ==
    listenState = "error" /\ pendingError = "none" /\ ~CallbackStageRun

\* C13: a collection read is answered by exactly one send: nothing is sent
\* while paginate is pending, a resolved paginate is answered with OK, its
\* data and its page metadata, a rejected one with INTERNAL_SERVER_ERROR
\* and the error's stack, and every settled paginate is answered.
OkEnvelope == [data |-> data, code |-> "OK", meta |-> <<[paginate |-> paginate]>>]

ErrorEnvelope ==
    [data |-> stack("query"), code |-> "INTERNAL_SERVER_ERROR", meta |-> <<>>]

ListAnswered == reqKind = "list" /\ reqPc = "done" /\ Len(sends) = 1

ListAnsweredOnce ==
    /\ [](reqKind = "list" =>
            /\ Len(sends) <= 1
            /\ (reqPc # "done" => sends = <<>>)
            /\ (reqPc = "done" => Len(sends) = 1))
    /\ [][(reqPc = "resolved" /\ reqPc' # "resolved") =>
            sends' = <<OkEnvelope>>]_vars
    /\ [][(reqPc = "rejected" /\ reqPc' # "rejected") =>
            sends' = <<ErrorEnvelope>>]_vars
    /\ ((reqKind = "list" /\ reqPc \in {"resolved", "rejected"}) ~> ListAnswered)

ListFailureAnswered ==
    reqKind = "list" /\ reqPc = "done" /\ sends = <<ErrorEnvelope>>

\* C14: the update validation middleware either sends the details once with
\* UNPROCESSABLE_ENTITY and does not call next, when the payload fails the
\* schema, or calls next once and sends nothing, when it passes; a name
\* longer than 50 characters is a failure whose details name that field.
UpdateValidated == reqKind = "update" /\ reqPc = "done"

ValidateSendsOrNexts ==
    UpdateValidated =>
        /\ IF validate(body, year) # <<>>
           THEN /\ nexts = 0
                /\ Len(sends) = 1
                /\ sends[1].code = "UNPROCESSABLE_ENTITY"
                /\ sends[1].data = validate(body, year)
                /\ sends[1].data # <<>>
           ELSE nexts = 1 /\ sends = <<>>
        /\ (body.name.kind = "string" /\ body.name.len > NameMax) =>
              /\ Len(sends) = 1
              /\ sends[1].code = "UNPROCESSABLE_ENTITY"
              /\ \E i \in DOMAIN sends[1].data : sends[1].data[i] = "name"

NameTooLongRejected ==
    /\ UpdateValidated
    /\ body.name = [kind |-> "string", len |-> NameMax + 1]
    /\ Len(sends) = 1 /\ nexts = 0

\* C15: a resolved paginate holds at most limit items and a pageCount equal
\* to ceil(totalCount / limit), which is 0 when totalCount is 0, and no
\* items when totalCount is 0.
PaginateResolved == reqKind = "list" /\ reqPc = "resolved"

IsCeil(pages, total, limit) ==
    pages * limit >= total /\ (pages > 0 => (pages - 1) * limit < total)

PageBounds ==
    /\ Len(data) <= query.limit
    /\ paginate.limit = query.limit /\ paginate.page = query.page
    /\ IsCeil(paginate.pageCount, paginate.totalCount, query.limit)
    /\ (paginate.totalCount = 0 => paginate.pageCount = 0)

PaginateBounds ==
    PaginateResolved => (PageBounds /\ (paginate.totalCount = 0 => data = <<>>))

\* C15, amended: the items are empty for totalCount = 0 when no write landed
\* between the count and the fetch.
PaginateBoundsQuiet ==
    PaginateResolved =>
        (PageBounds /\ ((paginate.totalCount = 0 /\ ~raced) => data = <<>>))

LastPagePartial ==
    /\ PaginateResolved /\ ~raced
    /\ paginate.totalCount = 3 /\ query.limit = 2 /\ query.page = 2
    /\ paginate.pageCount = 2 /\ Len(data) = 1

\* C16: for a page beyond the last one with totalCount > 0, paginate
\* resolves with no items and the handler answers with OK.
BeyondLastPage ==
    /\ reqKind = "list" /\ reqPc \in {"resolved", "done"}
    /\ paginate.totalCount > 0
    /\ paginate.page > paginate.pageCount

BeyondLastPageEmpty ==
    BeyondLastPage =>
        /\ data = <<>>
        /\ (reqPc = "done" => sends = <<OkEnvelope>>)

\* C16, amended: the items are empty when no write landed between the count
\* and the fetch; the handler answers with OK in every case.
BeyondLastPageEmptyQuiet ==
    BeyondLastPage =>
        /\ (~raced => data = <<>>)
        /\ (reqPc = "done" => sends = <<OkEnvelope>>)

BeyondLastPageAnswered ==
    BeyondLastPage /\ ~raced /\ reqPc = "done" /\ data = <<>>

====
